---------------------------- MODULE Spec2Model ----------------------------
(***************************************************************************)
(* Model of the helper functions of "Day 2 - Persistent homology.ipynb":   *)
(* maxmin, uniform_sampling and plot_barcodes.                             *)
(*                                                                         *)
(* Arrays are sequences.  The code's indices are 0-based, so the element   *)
(* of index x of an array a is a[x + 1]; the indices stored in L are the   *)
(* code's 0-based indices.  Distances are natural numbers: the code only   *)
(* compares them and takes minima and maxima.                              *)
(***************************************************************************)
EXTENDS Integers, Sequences, FiniteSets, TLC

\* ------------------------------------------------------------- bounds
\* largest number of points of a distance matrix
MaxN == 3
\* largest distance between two points
MaxDist == 2
\* largest sample size n requested from uniform_sampling
MaxSample == 2
\* largest side of the square of the 4-corner scenario
MaxSide == 3
\* largest number of homological dimensions of a collection of diagrams
MaxDims == 2
\* largest number of intervals of a collection of diagrams, all dimensions
\* together
MaxBars == 2
\* largest finite birth or death of an interval
MaxTime == 1

\* ------------------------------------------------------- numpy helpers
\* a[x] for a 0-based index x
At(a, x) == a[x + 1]

\* the valid indices of an array: range(len(a))
Indices(a) == 0 .. (Len(a) - 1)

\* a mutant of np.max: the minimum
MinForMax(a) == CHOOSE m \in {a[k] : k \in 1..Len(a)} : \A k \in 1..Len(a) : m <= a[k]

\* np.max(a) of a non-empty array
NpMax(a) == CHOOSE m \in {a[k] : k \in 1..Len(a)} : \A k \in 1..Len(a) : a[k] <= m

\* a mutant of np.argmax: the first occurrence of the minimum
ArgminFirst(a) == CHOOSE x \in Indices(a) :
                    /\ \A y \in Indices(a) : At(a, x) <= At(a, y)
                    /\ \A y \in Indices(a) : At(a, y) = At(a, x) => x <= y

\* a mutant of np.argmax: the last occurrence of the maximum
ArgmaxLast(a) == CHOOSE x \in Indices(a) :
                    /\ At(a, x) = NpMax(a)
                    /\ \A y \in Indices(a) : At(a, y) = NpMax(a) => y <= x

\* np.argmax(a): the index of the first occurrence of the maximum
NpArgmax(a) == CHOOSE x \in Indices(a) :
                    /\ At(a, x) = NpMax(a)
                    /\ \A y \in Indices(a) : At(a, y) = NpMax(a) => x <= y

\* a mutant of np.minimum: the second array replaces the first
MinimumOverwrite(a, b) == b

\* np.minimum(a, b): the elementwise minimum of two arrays of one length
NpMinimum(a, b) == [k \in 1..Len(a) |-> IF a[k] <= b[k] THEN a[k] ELSE b[k]]

\* np.random.randint(low, high): the values it may return (none: it raises)
NpRandint(low, high) == low .. (high - 1)

\* dist_matrix[l, :], row l of the matrix
Row(D, l) == At(D, l)

\* a mutant of np.random.choice: drawn without replacement
ChoiceWithoutReplacement(a, size) ==
    IF size < 0 \/ (a <= 0 /\ size > 0) THEN {}
    ELSE {c \in [1..size -> 0..(a - 1)] :
            \A j, k \in 1..size : j # k => c[j] # c[k]}

\* np.random.choice(a, size), replace=True by default: the arrays it may
\* return.  None: it raises ValueError (a negative size, or a sample of
\* nothing).
NpRandomChoice(a, size) ==
    IF size < 0 \/ (a <= 0 /\ size > 0) THEN {}
    ELSE [1..size -> 0..(a - 1)]

\* dist_matrix[L, :]: the rows of the matrix at the indices of L, in order
Take(D, idx) == [r \in 1..Len(idx) |-> Row(D, idx[r])]

\* np.min(M, axis=0) of a matrix M with at least one row: the minimum of
\* each column
NpMinAxis0(M) ==
    [k \in 1..Len(M[1]) |->
        CHOOSE m \in {M[r][k] : r \in 1..Len(M)} : \A r \in 1..Len(M) : m <= M[r][k]]

\* --------------------------------------------------------- the inputs
Pairs(N) == {p \in (1..N) \X (1..N) : p[1] < p[2]}

\* the matrix over N points whose entry (a, b), a < b, is f[<<a, b>>]
MatrixOf(N, f) ==
    [a \in 1..N |-> [b \in 1..N |->
        IF a = b THEN 0 ELSE IF a < b THEN f[<<a, b>>] ELSE f[<<b, a>>]]]

\* the distance matrices over N points: square, symmetric, non-negative,
\* zero diagonal
DistanceMatrices(N) == {MatrixOf(N, f) : f \in [Pairs(N) -> 0..MaxDist]}

\* the 4 corners of a square of side s and diagonal d, corner opp being the
\* one diagonally opposite corner 0
SquareMatrix(s, d, opp) ==
    [a \in 1..4 |-> [b \in 1..4 |->
        IF a = b THEN 0
        ELSE IF {a - 1, b - 1} = {0, opp} \/ {a - 1, b - 1} = (0..3) \ {0, opp}
             THEN d ELSE s]]

\* side and diagonal of a square: s < d < 2s (d = s * sqrt 2)
SquareSides == {sd \in (1..MaxSide) \X (1..MaxSide) :
                    sd[1] < sd[2] /\ sd[2] < 2 * sd[1]}

SquareMatrices == {SquareMatrix(sd[1], sd[2], opp) : sd \in SquareSides, opp \in 1..3}

\* the sample sizes requested from maxmin: up to one more than the points
MaxminSizes == (-1) .. (MaxN + 1)

\* the sample sizes requested from uniform_sampling
UniformSizes == (-1) .. MaxSample

\* the maximum display scales given to plot_barcodes
DisplayScales == 1 .. (MaxTime + 1)

\* the death of an interval that never dies (np.inf): above every finite value
Inf == MaxTime + 2

\* np.isinf(v)
NpIsinf(v) == v = Inf

\* the (birth, death) pairs: birth finite, death not before birth or infinite
Intervals == {bd \in (0..MaxTime) \X ((0..MaxTime) \cup {Inf}) : bd[1] <= bd[2]}

\* the barcodes of at most k intervals
Barcodes(k) == UNION {[1..m -> Intervals] : m \in 0..k}

\* the collections of diagrams of d dimensions and at most k intervals
RECURSIVE Diagrams(_, _)
Diagrams(d, k) ==
    IF d = 0 THEN {<<>>}
    ELSE UNION {{<<bc>> \o rest : rest \in Diagrams(d - 1, k - Len(bc))} :
                    bc \in Barcodes(k)}

\* ---------------------------------------------------------- matplotlib
\* a subplot with nothing drawn on it: the lines drawn by plot, as
\* <<x0, x1, y>>, the markers drawn by scatter, as <<x, y>>, the limits of the
\* axes (<<>>: not set) and the text
NewAxes == [lines |-> <<>>, markers |-> <<>>, xlim100 |-> <<>>, ylim |-> <<>>,
            text |-> -1]

\* no figure
NoAxes == [array |-> FALSE, axes |-> <<>>]

\* a mutant of plt.subplots: an array of Axes whatever the number of rows
SubplotsNoSqueeze(nrows) == [array |-> TRUE, axes |-> [k \in 1..nrows |-> NewAxes]]

\* plt.subplots(nrows), for nrows >= 1 (squeeze=True by default): nrows
\* subplots in one column, returned as an array of Axes when there are
\* several and as a single Axes object, which has no [], when there is one
PltSubplots(nrows) == [array |-> nrows > 1, axes |-> [k \in 1..nrows |-> NewAxes]]

\* ----------------------------------------------- the Rips-complex cell
\* the thresholds alpha the cell is run with
Thresholds == 0 .. (MaxDist + 1)

\* the cell was not run: no threshold (-1), and the lists e (the edges added
\* to e_x, e_y, e_z, as <<i, j>>), ii, jj, kk (the triangles) are empty
NoRips == [alpha |-> -1, e |-> <<>>, ii |-> <<>>, jj |-> <<>>, kk |-> <<>>]

\* a mutant of the test of an edge: the threshold included
EdgeTestInclusive(D, a, b, alpha) == At(At(D, a), b) <= alpha

\* "if distMat[i,j] < alpha"
EdgeTest(D, a, b, alpha) == At(At(D, a), b) < alpha

\* a mutant of the test of a triangle: distMat[i,k] is left out
TriangleTestOneSide(D, a, b, c, alpha) == At(At(D, b), c) < alpha

\* "if np.max([distMat[j,k], distMat[i,k]]) < alpha"
TriangleTest(D, a, b, c, alpha) ==
    NpMax(<<At(At(D, b), c), At(At(D, a), c)>>) < alpha

\* "for k in range(j+1,n_data)" from k = c on, inside the edge (a, b): a
\* triangle (a, b, k) is appended to ii, jj, kk when it passes the test
RECURSIVE RipsK(_, _, _, _, _, _)
RipsK(D, alpha, a, b, c, st) ==
    IF c >= Len(D) THEN st
    ELSE RipsK(D, alpha, a, b, c + 1,
               IF TriangleTest(D, a, b, c, alpha)
               THEN [st EXCEPT !.ii = Append(@, a), !.jj = Append(@, b),
                               !.kk = Append(@, c)]
               ELSE st)

\* "for j in range(i+1,n_data)" from j = b on: an edge (a, j) that passes the
\* test is added, and the loop over k is run for it
RECURSIVE RipsJ(_, _, _, _, _)
RipsJ(D, alpha, a, b, st) ==
    IF b >= Len(D) THEN st
    ELSE RipsJ(D, alpha, a, b + 1,
               IF EdgeTest(D, a, b, alpha)
               THEN RipsK(D, alpha, a, b, b + 1,
                          [st EXCEPT !.e = Append(@, <<a, b>>)])
               ELSE st)

\* "for i in range(n_data)" from i = a on
RECURSIVE RipsI(_, _, _, _)
RipsI(D, alpha, a, st) ==
    IF a >= Len(D) THEN st
    ELSE RipsI(D, alpha, a + 1, RipsJ(D, alpha, a, a + 1, st))

VARIABLES
    dist_matrix,  \* the distance matrix the helpers are called on
    diagrams,     \* the collection of diagrams plot_barcodes is called on
    op,           \* the helper being run, or run last
    pc,           \* "idle", "maxmin_for", "plot_for" (head of a loop), "done"
    n,            \* the requested sample size
    L,            \* the list of selected indices
    dist_to_L,    \* the working array of minimum distances to L
    i,            \* maxmin's loop counter: the iterations done
    cr,           \* the returned covering radius (-1: none)
    alpha_max,    \* plot_barcodes' maximum display scale
    dim,          \* plot_barcodes' loop counter
    axs,          \* what plt.subplots returned, with what was drawn since
    rips,         \* the threshold and the lists of the Rips-complex cell
    outcome       \* "none", "returned", "raised"

vars == <<dist_matrix, diagrams, op, pc, n, L, dist_to_L, i, cr,
          alpha_max, dim, axs, rips, outcome>>

num_points == Len(dist_matrix)

max_dim == Len(diagrams)

\* no call was made yet; the notebook holds a distance matrix, or it holds the
\* diagrams of a point cloud
Init ==
    /\ \/ /\ dist_matrix \in (UNION {DistanceMatrices(N) : N \in 0..MaxN})
                                \cup SquareMatrices
          /\ diagrams = <<>>
       \/ /\ dist_matrix = <<>>
          /\ diagrams \in UNION {Diagrams(d, MaxBars) : d \in 0..MaxDims}
    /\ op = "none"
    /\ pc = "idle"
    /\ n = 0
    /\ L = <<>>
    /\ dist_to_L = <<>>
    /\ i = 0
    /\ cr = -1
    /\ alpha_max = 0
    /\ dim = 0
    /\ axs = NoAxes
    /\ rips = NoRips
    /\ outcome = "none"

\* a call may start when no call is running
CanCall == pc = "idle"

\* the locals and the result of an earlier call are gone when a call starts
NoSamplingFrame == n' = 0 /\ L' = <<>> /\ dist_to_L' = <<>> /\ i' = 0 /\ cr' = -1

NoPlotFrame == alpha_max' = 0 /\ dim' = 0 /\ axs' = NoAxes

NoRipsFrame == rips' = NoRips

\* ------------------------------------------------------------- maxmin
\* maxmin(dist_matrix, nn), up to the head of the loop:
\*   L = [np.random.randint(0, len(dist_matrix))]; dist_to_L = dist_matrix[L[-1], :]
\* randint raises ValueError when the matrix has no point.
MaxminCall(nn) ==
    /\ CanCall
    /\ op' = "maxmin"
    /\ n' = nn
    /\ i' = 0
    /\ cr' = -1
    /\ IF NpRandint(0, num_points) = {}
       THEN /\ L' = <<>>
            /\ dist_to_L' = <<>>
            /\ outcome' = "raised"
            /\ pc' = "done"
       ELSE /\ \E first \in NpRandint(0, num_points) : L' = <<first>>
            /\ dist_to_L' = Row(dist_matrix, L'[Len(L')])
            /\ outcome' = "none"
            /\ pc' = "maxmin_for"
    /\ NoPlotFrame
    /\ NoRipsFrame
    /\ UNCHANGED <<dist_matrix, diagrams>>

\* a mutant of the loop's range: range(n)
InRangeN == i < n

\* "for i in range(n-1)": another iteration follows
InRange == i < n - 1

\* the row of dist_matrix that dist_to_L is a view of: dist_matrix[L[-1], :]
\* is a view of the row of the first pick, np.minimum returns a new array
\* (-1: dist_to_L is an array of its own)
ViewedRow == IF i = 0 THEN L[1] ELSE -1

\* a mutant of the assignment to dist_to_L: the new values are written in
\* place, np.minimum(..., out=dist_to_L), through the view
StoreInPlace(D, view, arr) == IF view >= 0 THEN [D EXCEPT ![view + 1] = arr] ELSE D

\* the matrix after "dist_to_L = np.minimum(...)": the name dist_to_L is bound
\* to the new array arr, and the row it was a view of is not written
StoreDistToL(D, view, arr) == D

\* one iteration of "for i in range(n-1)":
\*   ind = np.argmax(dist_to_L); L.append(ind)
\*   dist_to_L = np.minimum(dist_to_L, dist_matrix[L[-1], :])
MaxminStep ==
    /\ pc = "maxmin_for"
    /\ InRange
    /\ LET ind == NpArgmax(dist_to_L)
       IN /\ L' = Append(L, ind)
          /\ dist_to_L' = NpMinimum(dist_to_L, Row(dist_matrix, L'[Len(L')]))
    /\ dist_matrix' = StoreDistToL(dist_matrix, ViewedRow, dist_to_L')
    /\ i' = i + 1
    /\ UNCHANGED <<diagrams, op, pc, n, cr, alpha_max, dim, axs, rips, outcome>>

\* the loop is over: cr = np.max(dist_to_L); return L, cr
MaxminReturn ==
    /\ pc = "maxmin_for"
    /\ ~InRange
    /\ cr' = NpMax(dist_to_L)
    /\ outcome' = "returned"
    /\ pc' = "done"
    /\ UNCHANGED <<dist_matrix, diagrams, op, n, L, dist_to_L, i, alpha_max, dim, axs, rips>>

\* maxmin as a function of the matrix, of the value randint returned and of n:
\* the loop from a list Ls and a working array d, k iterations being left, then
\* cr = np.max(dist_to_L); return L, cr
RECURSIVE MaxminLoop(_, _, _, _)
MaxminLoop(D, Ls, d, k) ==
    IF k <= 0
    THEN [L |-> Ls, cr |-> NpMax(d)]
    ELSE LET ind == NpArgmax(d)
             Ls2 == Append(Ls, ind)
         IN MaxminLoop(D, Ls2, NpMinimum(d, Row(D, Ls2[Len(Ls2)])), k - 1)

Maxmin(D, first, nn) == MaxminLoop(D, <<first>>, Row(D, first), nn - 1)

\* --------------------------------------------------- uniform_sampling
\* uniform_sampling(dist_matrix, nn), the whole call:
\*   num_points = dist_matrix.shape[0]; L = np.random.choice(num_points, n)
\*   dist_to_L = np.min(dist_matrix[L,:], axis=0); return L, np.max(dist_to_L)
\* np.random.choice raises ValueError on a negative n and on a sample of no
\* point; np.min raises ValueError when L is empty (no row to reduce).
UniformSampling(nn) ==
    /\ CanCall
    /\ op' = "uniform_sampling"
    /\ n' = nn
    /\ i' = 0
    /\ IF NpRandomChoice(num_points, nn) = {}
       THEN /\ L' = <<>>
            /\ dist_to_L' = <<>>
            /\ cr' = -1
            /\ outcome' = "raised"
       ELSE /\ L' \in NpRandomChoice(num_points, nn)
            /\ IF L' = <<>>
               THEN /\ dist_to_L' = <<>>
                    /\ cr' = -1
                    /\ outcome' = "raised"
               ELSE /\ dist_to_L' = NpMinAxis0(Take(dist_matrix, L'))
                    /\ cr' = NpMax(dist_to_L')
                    /\ outcome' = "returned"
    /\ pc' = "done"
    /\ NoPlotFrame
    /\ NoRipsFrame
    /\ UNCHANGED <<dist_matrix, diagrams>>

\* ------------------------------------------------------ plot_barcodes
\* barcode = np.copy(diagrams[dim]); ind_inf = np.isinf(barcode.T[1])
IndInf(bc) == [k \in 1..Len(bc) |-> NpIsinf(bc[k][2])]

\* a mutant of the substitution: every death becomes alpha
SubstituteAll(bc, alpha) == [k \in 1..Len(bc) |-> <<bc[k][1], alpha>>]

\* barcode[ind_inf, 1] = alpha_max, on the copy
SubstituteInf(bc, alpha) ==
    [k \in 1..Len(bc) |-> IF IndInf(bc)[k] THEN <<bc[k][1], alpha>> ELSE bc[k]]

\* the loop "for i in range(len(barcode))" from its iteration k on, h being
\* the height of the next bar:
\*   x = barcode[i]; y = [h,h]; plot(x, y); if ind_inf[i]: scatter([alpha_max],[h]); h += 1
\* and after it set_xlim(0, 1.05*alpha_max) (in hundredths), set_ylim(0, h), text(str(dim))
RECURSIVE DrawBars(_, _, _, _, _, _, _)
DrawBars(ax, barcode, ind_inf, alpha, d, k, h) ==
    IF k > Len(barcode)
    THEN [ax EXCEPT !.xlim100 = <<0, 105 * alpha>>, !.ylim = <<0, h>>, !.text = d]
    ELSE LET x == barcode[k]
             plotted == [ax EXCEPT !.lines = Append(@, <<x[1], x[2], h>>)]
             marked == IF ind_inf[k]
                       THEN [plotted EXCEPT !.markers = Append(@, <<alpha, h>>)]
                       ELSE plotted
         IN DrawBars(marked, barcode, ind_inf, alpha, d, k + 1, h + 1)

\* plot_barcodes(diagrams, am), up to the head of the loop over the dimensions:
\*   max_dim = len(diagrams); fig, axs = plt.subplots(max_dim)
\* plt.subplots raises ValueError when asked for no row.
PlotCall(am) ==
    /\ CanCall
    /\ op' = "plot_barcodes"
    /\ alpha_max' = am
    /\ dim' = 0
    /\ IF max_dim < 1
       THEN /\ axs' = NoAxes
            /\ outcome' = "raised"
            /\ pc' = "done"
       ELSE /\ axs' = PltSubplots(max_dim)
            /\ outcome' = "none"
            /\ pc' = "plot_for"
    /\ NoSamplingFrame
    /\ NoRipsFrame
    /\ UNCHANGED <<dist_matrix, diagrams>>

\* a mutant of the copy: barcode = diagrams[dim], the substitution is written
\* in the diagram itself
SubstitutedInPlace(dgms, d, barcode) == [dgms EXCEPT ![d + 1] = barcode]

\* the diagrams after "barcode = np.copy(diagrams[dim]);
\* barcode[ind_inf, 1] = alpha_max": the substitution is written in the copy
AfterSubstitution(dgms, d, barcode) == dgms

\* one iteration of "for dim in range(max_dim)".  axs[dim] raises TypeError
\* when axs is a single Axes object; the first axs[dim] of the iteration is
\* reached whatever the barcode (set_xlim, at the latest).
PlotDim ==
    /\ pc = "plot_for"
    /\ dim < max_dim
    /\ LET barcode == SubstituteInf(At(diagrams, dim), alpha_max)
           ind_inf == IndInf(At(diagrams, dim))
       IN IF ~axs.array
          THEN /\ outcome' = "raised"
               /\ pc' = "done"
               /\ UNCHANGED <<dim, axs>>
          ELSE /\ axs' = [axs EXCEPT !.axes[dim + 1] =
                            DrawBars(@, barcode, ind_inf, alpha_max, dim, 1, 1)]
               /\ dim' = dim + 1
               /\ UNCHANGED <<outcome, pc>>
    /\ diagrams' = AfterSubstitution(diagrams, dim,
                        SubstituteInf(At(diagrams, dim), alpha_max))
    /\ UNCHANGED <<dist_matrix, op, n, L, dist_to_L, i, cr, alpha_max, rips>>

\* the loop is over: the function returns (None)
PlotReturn ==
    /\ pc = "plot_for"
    /\ ~(dim < max_dim)
    /\ outcome' = "returned"
    /\ pc' = "done"
    /\ UNCHANGED <<dist_matrix, diagrams, op, n, L, dist_to_L, i, cr, alpha_max, dim, axs, rips>>

\* ----------------------------------------------- the Rips-complex cell
\* the cell run with threshold a on the distance matrix of the data:
\*   ii = []; jj = []; kk = []; e_x =[]; e_y =[]; e_z =[]
\* and the three nested loops
RipsCell(a) ==
    /\ CanCall
    /\ op' = "rips"
    /\ rips' = RipsI(dist_matrix, a, 0, [NoRips EXCEPT !.alpha = a])
    /\ outcome' = "returned"
    /\ pc' = "done"
    /\ NoSamplingFrame
    /\ NoPlotFrame
    /\ UNCHANGED <<dist_matrix, diagrams>>

\* the caller is done with the result of the call: the notebook is ready for
\* the next call, on the same distance matrix and diagrams
NextCell ==
    /\ pc = "done"
    /\ pc' = "idle"
    /\ op' = "none"
    /\ outcome' = "none"
    /\ NoSamplingFrame
    /\ NoPlotFrame
    /\ NoRipsFrame
    /\ UNCHANGED <<dist_matrix, diagrams>>

Next ==
    \/ \E nn \in MaxminSizes : MaxminCall(nn)
    \/ MaxminStep
    \/ MaxminReturn
    \/ \E nn \in UniformSizes : UniformSampling(nn)
    \/ \E am \in DisplayScales : PlotCall(am)
    \/ PlotDim
    \/ PlotReturn
    \/ \E a \in Thresholds : RipsCell(a)
    \/ NextCell

Spec == Init /\ [][Next]_vars

\* ====================================================================
\* The claims
\* ====================================================================
N == num_points

\* the call of helper f has returned
Returned(f) == op = f /\ pc = "done" /\ outcome = "returned"

\* the call of helper f has ended, by a return or by an exception
Ended(f) == op = f /\ pc = "done"

\* no index appears twice in the list
Distinct(seq) == \A j, k \in 1..Len(seq) : j # k => seq[j] # seq[k]

\* every element of the list is an index of a point
InRange0N(seq) == \A k \in 1..Len(seq) : seq[k] \in 0..(N - 1)

\* no two points of the matrix coincide: every off-diagonal entry is positive
PositiveOffDiagonal(D) ==
    \A a, b \in 1..Len(D) : a # b => D[a][b] > 0

\* dist_matrix[j][l], for 0-based j and l
Dist(D, j, l) == At(At(D, j), l)

SetMin(S) == CHOOSE m \in S : \A v \in S : m <= v

SetMax(S) == CHOOSE m \in S : \A v \in S : v <= m

\* the distance from point x to the nearest of the points of the list idx,
\* read in the rows of the points of idx
MinDistTo(D, idx, x) == SetMin({Dist(D, idx[k], x) : k \in 1..Len(idx)})

\* the covering radius of the subset idx, recomputed by brute force: the
\* maximum over all points j of the minimum over l in idx of dist_matrix[j][l]
BruteForceCr(D, idx) ==
    SetMax({SetMin({Dist(D, j, idx[k]) : k \in 1..Len(idx)}) : j \in 0..(Len(D) - 1)})

\* ------------------------------------------------------------------ C1
\* C1, as stated: on every valid distance matrix over N points and every n
\* with 1 <= n <= N, maxmin returns exactly n indices, each in [0, N),
\* pairwise distinct.
C1_DistinctOnEveryMatrix ==
    (Returned("maxmin") /\ 1 <= n /\ n <= N)
        => (Len(L) = n /\ InRange0N(L) /\ Distinct(L))

\* C1, amended: on every valid distance matrix whose off-diagonal entries
\* are positive (no two points coincide) and every n with 1 <= n <= N, maxmin
\* returns exactly n indices, each in [0, N), pairwise distinct; on every
\* valid matrix it returns exactly n indices, each in [0, N).
C1_DistinctIndices ==
    (Returned("maxmin") /\ 1 <= n /\ n <= N)
        => /\ Len(L) = n
           /\ InRange0N(L)
           /\ PositiveOffDiagonal(dist_matrix) => Distinct(L)

C1_Witness ==
    /\ Returned("maxmin")
    /\ n = N
    /\ N >= 3
    /\ PositiveOffDiagonal(dist_matrix)
    /\ Distinct(L)

\* ------------------------------------------------------------------ C2
\* C2: when maxmin or uniform_sampling returns, for n >= 1, the covering
\* radius it returns is the brute-force value computed from the returned
\* indices: the maximum over all points j of the minimum over the returned l
\* of dist_matrix[j][l].
C2_CoveringRadiusIsBruteForce ==
    ((Returned("maxmin") \/ Returned("uniform_sampling")) /\ n >= 1)
        => cr = BruteForceCr(dist_matrix, L)

C2_Witness ==
    /\ Returned("maxmin")
    /\ n = 2
    /\ N >= 3
    /\ cr > 0
    /\ cr < NpMax(Row(dist_matrix, L[1]))

\* ------------------------------------------------------------------ C3
\* C3: for a fixed distance matrix and a fixed first pick, the covering
\* radius maxmin returns for n >= 1 is non-negative and is at most the one
\* it returns for every n1 in 1..n, and the list it returns for n1 is the
\* prefix of length n1 of the list it returns for n.
C3_CoveringRadiusNonIncreasing ==
    (Returned("maxmin") /\ n >= 1)
        => /\ cr >= 0
           /\ \A n1 \in 1..n :
                LET r1 == Maxmin(dist_matrix, L[1], n1)
                IN /\ cr <= r1.cr
                   /\ r1.L = SubSeq(L, 1, n1)

\* the covering radius has gone down strictly, twice
C3_Witness ==
    /\ Returned("maxmin")
    /\ n = 3
    /\ cr < Maxmin(dist_matrix, L[1], 2).cr
    /\ Maxmin(dist_matrix, L[1], 2).cr < Maxmin(dist_matrix, L[1], 1).cr

\* ------------------------------------------------------------------ C4
\* the list holds every index of 0..N-1 exactly once
Permutation(seq) ==
    /\ Len(seq) = N
    /\ {seq[k] : k \in 1..Len(seq)} = 0..(N - 1)

\* C4, as stated: on every valid distance matrix over N points, maxmin with
\* n = N returns a permutation of 0..N-1 and a covering radius of 0.
C4_PermutationOnEveryMatrix ==
    (Returned("maxmin") /\ n = N)
        => (Permutation(L) /\ cr = 0)

\* C4, amended: on every valid distance matrix over N points, maxmin with
\* n = N returns N indices and a covering radius of 0; the indices are a
\* permutation of 0..N-1 when the off-diagonal entries of the matrix are
\* positive (no two points coincide).
C4_AllPointsSelected ==
    (Returned("maxmin") /\ n = N)
        => /\ Len(L) = N
           /\ cr = 0
           /\ PositiveOffDiagonal(dist_matrix) => Permutation(L)

C4_Witness ==
    /\ Returned("maxmin")
    /\ n = N
    /\ N >= 3
    /\ PositiveOffDiagonal(dist_matrix)
    /\ Permutation(L)
    /\ L[1] # 0

\* ------------------------------------------------------------------ C5
\* the matrix is the one of the 4 corners of a square of side s and diagonal
\* d, corner opp being diagonally opposite corner 0
IsSquare(s, d, opp) ==
    /\ <<s, d>> \in SquareSides
    /\ dist_matrix = SquareMatrix(s, d, opp)

\* C5, as stated: on the 4 corners of a square, first pick 0 and n = 2,
\* maxmin selects the corner diagonally opposite corner 0 second and returns
\* the half-diagonal d/2 as covering radius.
C5_HalfDiagonal ==
    \A s, d \in 1..MaxSide, opp \in 1..3 :
        (Returned("maxmin") /\ IsSquare(s, d, opp) /\ n = 2 /\ L[1] = 0)
            => (L = <<0, opp>> /\ 2 * cr = d)

\* C5, amended: on the 4 corners of a square, first pick 0 and n = 2, maxmin
\* selects the corner diagonally opposite corner 0 second and returns the
\* side s of the square as covering radius.
C5_OppositeCornerAndSide ==
    \A s, d \in 1..MaxSide, opp \in 1..3 :
        (Returned("maxmin") /\ IsSquare(s, d, opp) /\ n = 2 /\ L[1] = 0)
            => (L = <<0, opp>> /\ cr = s)

C5_Witness ==
    /\ Returned("maxmin")
    /\ \E s, d \in 1..MaxSide : IsSquare(s, d, 2)
    /\ n = 2
    /\ L = <<0, 2>>

C7_UniformWithoutReplacement ==
    (Returned("uniform_sampling") /\ n <= N) => Distinct(L)

Farthest(D, idx) ==
    LET m == [y \in 0..(Len(D) - 1) |-> MinDistTo(D, idx, y)]
    IN {x \in 0..(Len(D) - 1) : \A y \in 0..(Len(D) - 1) : m[y] <= m[x]}

\* C9: maxmin is a greedy farthest-point traversal.  Its first index is an
\* index of [0, N); each later index L[j] maximizes, over all points x, the
\* minimum over the earlier indices l of dist_matrix[l][x], and is the
\* smallest index to do so; and at the head of the loop, before each
\* selection, dist_to_L[x] is the minimum over the selected l of
\* dist_matrix[l][x], for every point x.
C9_GreedyFarthestPoint ==
    /\ Returned("maxmin")
        => /\ L[1] \in 0..(N - 1)
           /\ \A j \in 2..Len(L) :
                LET far == Farthest(dist_matrix, SubSeq(L, 1, j - 1))
                IN L[j] \in far /\ \A x \in far : L[j] <= x
    /\ (op = "maxmin" /\ pc = "maxmin_for")
        => /\ Len(dist_to_L) = N
           /\ \A x \in 0..(N - 1) :
                At(dist_to_L, x) = MinDistTo(dist_matrix, L, x)

\* a selection is about to be made among several farthest points, after an
\* earlier selection, by a first pick other than point 0
C9_Witness ==
    /\ op = "maxmin"
    /\ pc = "maxmin_for"
    /\ InRange
    /\ Len(L) >= 2
    /\ L[1] # 0
    /\ Cardinality(Farthest(dist_matrix, L)) >= 2
    /\ NpMax(dist_to_L) > 0

\* ----------------------------------------------------------------- C10
\* the bars plot_barcodes is to draw for a barcode: one per interval, at
\* heights 1, 2, ... in input order, from birth to death, or to alpha when the
\* death is infinite
ExpectedLines(bc, alpha) ==
    [k \in 1..Len(bc) |->
        <<bc[k][1], IF bc[k][2] = Inf THEN alpha ELSE bc[k][2], k>>]

\* the heights of the intervals of a barcode whose death is infinite
InfiniteHeights(bc) == {k \in 1..Len(bc) : bc[k][2] = Inf}

\* the subplot shows the bars of the barcode, and an arrow marker at
\* (alpha, height) for exactly its intervals of infinite death
ShowsBarcode(ax, bc, alpha) ==
    /\ ax.lines = ExpectedLines(bc, alpha)
    /\ {ax.markers[m] : m \in 1..Len(ax.markers)}
            = {<<alpha, k>> : k \in InfiniteHeights(bc)}
    /\ Len(ax.markers) = Cardinality(InfiniteHeights(bc))

\* C10: plot_barcodes(diagrams, alpha_max) draws, for each dimension dim in
\* 0..len(diagrams)-1, one subplot with one horizontal bar per interval of
\* diagrams[dim], at heights 1, 2, ... in input order, a bar of infinite death
\* being drawn to alpha_max and marked with an arrow at (alpha_max, height).
C10_OneSubplotPerDimension ==
    (Ended("plot_barcodes") /\ max_dim >= 1)
        => /\ outcome = "returned"
           /\ Len(axs.axes) = max_dim
           /\ \A d \in 0..(max_dim - 1) :
                ShowsBarcode(axs.axes[d + 1], At(diagrams, d), alpha_max)

\* what the code does: C10's drawing, for collections of two dimensions or
\* more; with a single dimension the call raises TypeError and draws no bar
PlotBarcodesSeveralDimensions ==
    /\ (Ended("plot_barcodes") /\ max_dim >= 2)
            => /\ outcome = "returned"
               /\ Len(axs.axes) = max_dim
               /\ \A d \in 0..(max_dim - 1) :
                    ShowsBarcode(axs.axes[d + 1], At(diagrams, d), alpha_max)
    /\ (Ended("plot_barcodes") /\ max_dim = 1)
            => /\ outcome = "raised"
               /\ axs = PltSubplots(1)

\* ----------------------------------------------------------------- C12
\* the selection distance of the point selected at position j >= 2: its
\* minimum distance to the points selected before it, at the moment it is
\* selected
SelectionDistance(D, idx, j) == MinDistTo(D, SubSeq(idx, 1, j - 1), idx[j])

\* C12: the landmarks maxmin returns for n >= 2 are separated by at least
\* the covering radius it returns: dist_matrix[L[i]][L[j]] >= cr for every
\* pair of positions i < j; and the selection distances are non-increasing
\* over the steps.
C12_LandmarksSeparated ==
    (Returned("maxmin") /\ n >= 2)
        => /\ \A a, b \in 1..Len(L) :
                a < b => Dist(dist_matrix, L[a], L[b]) >= cr
           /\ \A j \in 2..(Len(L) - 1) :
                SelectionDistance(dist_matrix, L, j + 1)
                    <= SelectionDistance(dist_matrix, L, j)

\* three landmarks, the selection distance goes down strictly, a point is
\* left uncovered
C12_Witness ==
    /\ Returned("maxmin")
    /\ n = 3
    /\ cr > 0
    /\ SelectionDistance(dist_matrix, L, 3) < SelectionDistance(dist_matrix, L, 2)

\* ----------------------------------------------------------------- C14
\* C14: maxmin selects the random first point before it looks at n, so the
\* list it returns has max(n, 1) indices: for n <= 0 it makes no greedy step
\* and returns one index, with the maximum of the distance row of that point
\* as covering radius.
C14_AtLeastOneIndex ==
    Returned("maxmin")
        => /\ Len(L) = (IF n >= 1 THEN n ELSE 1)
           /\ n <= 0 => /\ i = 0
                        /\ L[1] \in 0..(N - 1)
                        /\ cr = NpMax(Row(dist_matrix, L[1]))

C14_Witness ==
    /\ Returned("maxmin")
    /\ n < 0
    /\ Len(L) = 1
    /\ L[1] # 0
    /\ cr > 0

\* ----------------------------------------------------------------- C13
\* C13: the helpers do not modify their inputs: no step of maxmin or of
\* uniform_sampling changes an entry of dist_matrix (although maxmin's working
\* array starts as a view of one of its rows), and no step of plot_barcodes
\* changes a (birth, death) pair of diagrams, infinite deaths included.
C13_InputsUnchanged ==
    [][dist_matrix' = dist_matrix /\ diagrams' = diagrams]_vars

\* maxmin has returned, and its working array is no longer the row of the
\* first pick, which it started as a view of
C13_Witness ==
    /\ Returned("maxmin")
    /\ n >= 2
    /\ dist_to_L # Row(dist_matrix, L[1])

\* ----------------------------------------------------------------- C11
\* the edges of the Rips complex at threshold alpha: the pairs a < b of
\* points at distance < alpha
RipsEdges(D, alpha) ==
    {p \in (0..(Len(D) - 1)) \X (0..(Len(D) - 1)) :
        p[1] < p[2] /\ Dist(D, p[1], p[2]) < alpha}

\* its triangles: the triples a < b < c of points of diameter < alpha
RipsTriangles(D, alpha) ==
    {t \in (0..(Len(D) - 1)) \X (0..(Len(D) - 1)) \X (0..(Len(D) - 1)) :
        /\ t[1] < t[2] /\ t[2] < t[3]
        /\ Dist(D, t[1], t[2]) < alpha
        /\ Dist(D, t[1], t[3]) < alpha
        /\ Dist(D, t[2], t[3]) < alpha}

\* C11: the Rips-complex cell at threshold alpha emits the edge (i, j),
\* i < j, exactly when distMat[i][j] < alpha, and the triangle (i, j, k),
\* i < j < k, exactly when the three pairwise distances are < alpha; each
\* is emitted exactly once, and nothing else is emitted.
C11_RipsEdgesAndTriangles ==
    Ended("rips")
        => /\ outcome = "returned"
           /\ {rips.e[t] : t \in 1..Len(rips.e)} = RipsEdges(dist_matrix, rips.alpha)
           /\ Len(rips.e) = Cardinality(RipsEdges(dist_matrix, rips.alpha))
           /\ Len(rips.jj) = Len(rips.ii)
           /\ Len(rips.kk) = Len(rips.ii)
           /\ {<<rips.ii[t], rips.jj[t], rips.kk[t]>> : t \in 1..Len(rips.ii)}
                    = RipsTriangles(dist_matrix, rips.alpha)
           /\ Len(rips.ii) = Cardinality(RipsTriangles(dist_matrix, rips.alpha))

\* a run that emits the three edges of a triangle and the triangle, at a
\* threshold that a larger distance would not pass
C11_Witness ==
    /\ Ended("rips")
    /\ rips.alpha <= MaxDist
    /\ rips.e = <<<<0, 1>>, <<0, 2>>, <<1, 2>>>>
    /\ <<rips.ii, rips.jj, rips.kk>> = <<<<0>>, <<1>>, <<2>>>>
    /\ PositiveOffDiagonal(dist_matrix)

=============================================================================
